---------------------------- MODULE Spec2Model ----------------------------
(***************************************************************************)
(* Model of the xrm2m Go library: the XrSession transport (ssh.go) with    *)
(* its readiness gate and background preamble read, and the M2MClient      *)
(* (jsonrpc.go) with its latch-once Error / LastOp fields.                 *)
(*                                                                         *)
(* Three specifications share the variables:                               *)
(*   Spec        a single caller issuing operations on an M2MClient        *)
(*   SpecSession NewXrSession, the preamble goroutine, Read/Write/Close    *)
(*   SpecRequest make_request applied to bounded argument lists            *)
(***************************************************************************)
EXTENDS Integers, Sequences, FiniteSets, TLC

VARIABLES
    \* ---- M2MClient (jsonrpc.go:15-19) and what a caller observes
    Error,      \* m2m.Error: Nil or an error value
    LastOp,     \* m2m.LastOp
    closed,     \* m2m.Close() has been called (rpc.Client shut down)
    ret,        \* value returned by the most recent operation
    nOps,       \* operations issued so far by the caller
    nCalls,     \* invocations of m2m.Call (requests handed to the transport)
    lastReq,    \* the request most recently passed to m2m.Call
    last,       \* the most recent operation: method, shape, sent, round trip
    failed,     \* the first operation that set Error
    \* ---- make_request (jsonrpc.go:184-190)
    args,       \* the variadic argument list
    request,    \* the outcome of make_request(args)
    collectors, \* how many collectors update_collectors is given (collectors.go:20)
    \* ---- NewXrSession and XrSession (ssh.go:19-139)
    creds,      \* the Creds given to NewXrSession
    keyFile,    \* what the file at creds.Keypathname is: "good", "unreadable", "unparsable"
    client,     \* NewClient: "none" before it returns, then "nil" or "made"
    conn,       \* NewXrSession: "init", then "ok" (handle returned) or "failed"
    connErr,    \* the error NewXrSession returned ("" for nil)
    auth,       \* the authentication methods get_auth built
    dialed,     \* ssh.Dial has been called
    ready,      \* xrsession.ready
    bg,         \* the preamble goroutine: "none", "reading", "read", "done", "panicked"
    crashed,    \* the process has died of an unrecovered panic
    xclosed,    \* XrSession.Close has been called
    pc,         \* each caller's place in Read / Write: "idle", "gate", "io"
    early,      \* some call was issued while ready was still false
    ioDone,     \* caller calls that reached the underlying stream, per caller
    ioErr,      \* whether the caller's last Read / Write returned an error
    preLeft,    \* preamble bytes the peer emits that are not yet read
    leaked,     \* a caller's Read has been handed preamble bytes
    \* ---- the call_for_* helpers step by step (jsonrpc.go:111-182)
    tpc,        \* each calling thread's place in a helper: "idle", "call", "wait", "setop"
    top,        \* the operation each thread is in: its method and issue number
    issued,     \* operations issued so far, by all threads
    wire,       \* issue numbers of the requests written to the transport, in order
    pending,    \* issue numbers of requests written and not yet answered
    overlap     \* some helper tested m2m.Error while another thread was inside one

cvars == <<Error, LastOp, closed, ret, nOps, nCalls, lastReq, last, failed>>
rvars == <<args, request, collectors>>
svars == <<creds, keyFile, client, conn, connErr, auth, dialed, ready, bg, crashed, xclosed,
           pc, early, ioDone, ioErr, preLeft, leaked>>
wvars == <<tpc, top, issued, wire, pending, overlap>>
vars == <<cvars, rvars, svars, wvars>>

----------------------------------------------------------------------------
\* Bounds of the model

\* Operations one caller issues on one client.
MaxOps == 3
\* (name, value) pairs in an argument list given to make_request.
MaxPairs == 2
\* Read / Write calls each caller completes on one XrSession.
MaxIO == 2
\* Bytes of startup preamble the remote command emits.
MaxPreamble == 2
\* Operations issued, by all threads together, in the step-by-step model.
MaxIssued == 4
\* Collectors in the list given to update_collectors.
MaxCollectors == 2

----------------------------------------------------------------------------
\* make_request (jsonrpc.go:184-190)

ArgNames == {"a", "b", "c"}
ArgValues == {1, 2}

\* The map built by the loop after it has consumed the first 2*k arguments:
\* request[args[i].(string)] = args[i+1] for i = 0, 2, ..., a later pair
\* overwriting an earlier one with the same name.
RECURSIVE request_after(_, _)
request_after(a, k) ==
    IF k = 0
    THEN [n \in {} |-> 0]
    ELSE LET prev == request_after(a, k - 1)
             name == a[2 * k - 1]
             val  == a[2 * k]
         IN  [n \in (DOMAIN prev) \cup {name} |->
                 IF n = name THEN val ELSE prev[n]]

\* Variant: the loop stops one pair short (i < len(args)-2).
make_request_short(a) ==
    IF Len(a) % 2 = 1
    THEN [panic |-> TRUE, map |-> request_after(a, 0)]
    ELSE [panic |-> FALSE,
          map |-> request_after(a, IF Len(a) = 0 THEN 0
                                   ELSE Len(a) \div 2 - 1)]

\* An odd-length list makes args[i+1] index out of range: a run-time panic,
\* and no map is returned.
make_request(a) ==
    IF Len(a) % 2 = 1
    THEN [panic |-> TRUE, map |-> request_after(a, 0)]
    ELSE [panic |-> FALSE, map |-> request_after(a, Len(a) \div 2)]

\* The argument lists of at most n elements: names at the odd places,
\* values at the even ones.
RECURSIVE ArgLists(_)
ArgLists(n) ==
    IF n = 0
    THEN {<<>>}
    ELSE LET shorter == ArgLists(n - 1)
             longest == {l \in shorter : Len(l) = n - 1}
         IN  shorter \cup
             {Append(l, x) : l \in longest,
                             x \in IF n % 2 = 1 THEN ArgNames ELSE ArgValues}

NotBuilt == [state |-> "none", map |-> request_after(<<>>, 0)]

\* A caller applies make_request to args.
MakeRequest ==
    /\ request = NotBuilt
    /\ LET r == make_request(args) IN
       request' = [state |-> IF r.panic THEN "panic" ELSE "built",
                   map |-> r.map]
    /\ UNCHANGED <<args, collectors, cvars, svars, wvars>>

----------------------------------------------------------------------------
\* The round trip m2m.Call(method, request, &reply) as the library sees it.
\* net/rpc and jsonrpc2 are not part of the repository: Call is the
\* environment, and every outcome it can hand back is enumerated.

Nil == [kind |-> "nil", at |-> 0]

\* The result shapes: the Go type of `reply` in each call_for_* helper.
Shapes == {"string", "optional_string", "array_of_arrays", "object",
           "array_of_objects", "string_array", "void"}

\* What the server put in "result".
JsonKinds == {"null", "string", "number", "array_of_arrays",
              "array_of_strings", "array_of_objects", "object"}

\* What one round trip can come to: an I/O failure of the transport, an
\* error payload from the device, or a result of some JSON kind.
RoundTrips == {"transport", "remote"} \cup JsonKinds

\* The revision id / text a string result carries.
StringResult == "1001"

\* JSON kind j decodes into a reply of the shape without error.  JSON null
\* decodes into every Go type (it leaves the value untouched), and
\* interface{} takes anything.
Fits(shape, j) ==
    \/ j = "null"
    \/ shape = "void"
    \/ shape \in {"string", "optional_string"} /\ j = "string"
    \/ shape = "array_of_arrays" /\ j = "array_of_arrays"
    \/ shape = "object" /\ j = "object"
    \/ shape = "array_of_objects" /\ j = "array_of_objects"
    \/ shape = "string_array" /\ j = "array_of_strings"

\* The error Call returns for a round trip: nil exactly when a result came
\* back and decoded.
CallError(shape, rt) ==
    CASE rt = "transport" -> "transport"
      [] rt = "remote"    -> "remote"
      [] Fits(shape, rt)  -> "nil"
      [] OTHER            -> "decode"

\* The values `reply` (declared just before the call, so starting at its
\* zero value) can hold when Call returns.  A *string is <<>> for nil and
\* <<s>> for a pointer to s.  A failed decode may leave a composite reply
\* partly filled.
CallReply(shape, rt) ==
    LET err == CallError(shape, rt) IN
    CASE shape = "string" ->
            IF err = "nil" /\ rt = "string" THEN {StringResult} ELSE {""}
      [] shape = "optional_string" ->
            IF err = "nil" /\ rt = "string" THEN {<<StringResult>>}
            ELSE IF err = "decode" THEN {<<>>, <<"">>}
            ELSE {<<>>}
      [] shape = "void" -> {"none"}
      [] OTHER ->
            IF err = "nil" /\ rt # "null" THEN {rt}
            ELSE IF err = "decode" THEN {"nil", "partial"}
            ELSE {"nil"}

\* After Close the rpc.Client is shut down: Call fails without a round trip
\* reaching the peer.
RoundTripsNow == IF closed THEN {"transport"} ELSE RoundTrips

\* The error value a failing call yields: its class, and the operation (by
\* its position in the caller's sequence) that produced it.
MkErr(kind) == IF kind = "nil" THEN Nil ELSE [kind |-> kind, at |-> nOps + 1]

----------------------------------------------------------------------------
\* What the caller of an operation observes, and the record of the run.

NoFail == [at |-> 0, method |-> "", err |-> Nil, calls |-> 0]
NoOp == [method |-> "", shape |-> "void", sent |-> FALSE, rt |-> "none",
         prev |-> ""]
NoReq == [method |-> "", params |-> request_after(<<>>, 0)]

\* The zero value of a helper's result type ("none": the helper returns
\* nothing).
Zero(shape) ==
    CASE shape \in {"string", "optional_string"} -> ""
      [] shape = "void" -> "none"
      [] OTHER -> "nil"

\* An operation returns v to its caller.  sent: it invoked m2m.Call with
\* the request built from a, and the round trip came to rt.  The caller
\* issues at most MaxOps operations, and update_collectors one more for
\* each collector it is given.
Observe(method, shape, sent, a, rt, v) ==
    /\ nOps < MaxOps + collectors
    /\ ret' = v
    /\ nOps' = nOps + 1
    /\ nCalls' = IF sent THEN nCalls + 1 ELSE nCalls
    /\ lastReq' = IF sent
                  THEN [method |-> method, params |-> make_request(a).map]
                  ELSE lastReq
    /\ last' = [method |-> method, shape |-> shape, sent |-> sent,
                rt |-> rt, prev |-> last.method]
    /\ failed' = IF failed = NoFail /\ Error' # Nil
                 THEN [at |-> nOps + 1, method |-> method, err |-> Error',
                       calls |-> nCalls']
                 ELSE failed
    /\ UNCHANGED <<closed, rvars, svars, wvars>>

----------------------------------------------------------------------------
\* Helper functions to wrap individual APIs (jsonrpc.go:111-182)

\* Variant: an undecodable reply is not reported once something was decoded.
call_for_array_of_arrays_keeps_partial(method, a) ==
    IF Error # Nil
    THEN /\ UNCHANGED <<Error, LastOp>>
         /\ Observe(method, "array_of_arrays", FALSE, a, "none", "nil")
    ELSE \E rt \in RoundTripsNow :
         \E reply \in CallReply("array_of_arrays", rt) :
            /\ Error' = IF reply # "nil" THEN Nil
                        ELSE MkErr(CallError("array_of_arrays", rt))
            /\ LastOp' = method
            /\ Observe(method, "array_of_arrays", TRUE, a, rt, reply)

call_for_array_of_arrays(method, a) ==
    IF Error # Nil
    THEN /\ UNCHANGED <<Error, LastOp>>
         /\ Observe(method, "array_of_arrays", FALSE, a, "none", "nil")
    ELSE \E rt \in RoundTripsNow :
         \E reply \in CallReply("array_of_arrays", rt) :
            /\ Error' = MkErr(CallError("array_of_arrays", rt))
            /\ LastOp' = method
            /\ Observe(method, "array_of_arrays", TRUE, a, rt, reply)

\* Variant: a failed call is made once more before the error is kept.
call_for_object_retries(method, a) ==
    IF Error # Nil
    THEN /\ UNCHANGED <<Error, LastOp>>
         /\ Observe(method, "object", FALSE, a, "none", "nil")
    ELSE \E rt \in RoundTripsNow :
         \E reply \in CallReply("object", rt) :
            /\ nOps < MaxOps
            /\ Error' = MkErr(CallError("object", rt))
            /\ LastOp' = method
            /\ ret' = reply
            /\ nOps' = nOps + 1
            /\ nCalls' = IF Error' # Nil THEN nCalls + 2 ELSE nCalls + 1
            /\ lastReq' = [method |-> method, params |-> make_request(a).map]
            /\ last' = [method |-> method, shape |-> "object", sent |-> TRUE,
                        rt |-> rt, prev |-> last.method]
            /\ failed' = IF failed = NoFail /\ Error' # Nil
                         THEN [at |-> nOps + 1, method |-> method,
                               err |-> Error', calls |-> nCalls']
                         ELSE failed
            /\ UNCHANGED <<closed, rvars, svars, wvars>>

call_for_object(method, a) ==
    IF Error # Nil
    THEN /\ UNCHANGED <<Error, LastOp>>
         /\ Observe(method, "object", FALSE, a, "none", "nil")
    ELSE \E rt \in RoundTripsNow :
         \E reply \in CallReply("object", rt) :
            /\ Error' = MkErr(CallError("object", rt))
            /\ LastOp' = method
            /\ Observe(method, "object", TRUE, a, rt, reply)

call_for_array_of_objects(method, a) ==
    IF Error # Nil
    THEN /\ UNCHANGED <<Error, LastOp>>
         /\ Observe(method, "array_of_objects", FALSE, a, "none", "nil")
    ELSE \E rt \in RoundTripsNow :
         \E reply \in CallReply("array_of_objects", rt) :
            /\ Error' = MkErr(CallError("array_of_objects", rt))
            /\ LastOp' = method
            /\ Observe(method, "array_of_objects", TRUE, a, rt, reply)

\* Variant: LastOp is recorded only when the call fails.
call_for_string_lastop_on_failure(method, a) ==
    IF Error # Nil
    THEN /\ UNCHANGED <<Error, LastOp>>
         /\ Observe(method, "string", FALSE, a, "none", "")
    ELSE \E rt \in RoundTripsNow :
         \E reply \in CallReply("string", rt) :
            /\ Error' = MkErr(CallError("string", rt))
            /\ LastOp' = IF Error' # Nil THEN method ELSE LastOp
            /\ Observe(method, "string", TRUE, a, rt, reply)

call_for_string(method, a) ==
    IF Error # Nil
    THEN /\ UNCHANGED <<Error, LastOp>>
         /\ Observe(method, "string", FALSE, a, "none", "")
    ELSE \E rt \in RoundTripsNow :
         \E reply \in CallReply("string", rt) :
            /\ Error' = MkErr(CallError("string", rt))
            /\ LastOp' = method
            /\ Observe(method, "string", TRUE, a, rt, reply)

\* Variant: the check of m2m.Error is missing.
call_for_optional_string_unguarded(method, a) ==
    \E rt \in RoundTripsNow :
    \E reply \in CallReply("optional_string", rt) :
        /\ Error' = MkErr(CallError("optional_string", rt))
        /\ LastOp' = method
        /\ Observe(method, "optional_string", TRUE, a, rt,
                   IF reply = <<>> THEN "" ELSE reply[1])

\* Variant: an absent result is taken for a failure.
call_for_optional_string_nil_fails(method, a) ==
    IF Error # Nil
    THEN /\ UNCHANGED <<Error, LastOp>>
         /\ Observe(method, "optional_string", FALSE, a, "none", "")
    ELSE \E rt \in RoundTripsNow :
         \E reply \in CallReply("optional_string", rt) :
            /\ Error' = IF reply = <<>> /\ CallError("optional_string", rt) = "nil"
                        THEN MkErr("decode")
                        ELSE MkErr(CallError("optional_string", rt))
            /\ LastOp' = method
            /\ Observe(method, "optional_string", TRUE, a, rt,
                       IF reply = <<>> THEN "" ELSE reply[1])

call_for_optional_string(method, a) ==
    IF Error # Nil
    THEN /\ UNCHANGED <<Error, LastOp>>
         /\ Observe(method, "optional_string", FALSE, a, "none", "")
    ELSE \E rt \in RoundTripsNow :
         \E reply \in CallReply("optional_string", rt) :
            /\ Error' = MkErr(CallError("optional_string", rt))
            /\ LastOp' = method
            /\ Observe(method, "optional_string", TRUE, a, rt,
                       IF reply = <<>> THEN "" ELSE reply[1])

\* Variant: the decoded reply is dropped and the zero value returned.
call_for_string_array_drops_reply(method, a) ==
    IF Error # Nil
    THEN /\ UNCHANGED <<Error, LastOp>>
         /\ Observe(method, "string_array", FALSE, a, "none", "nil")
    ELSE \E rt \in RoundTripsNow :
         \E reply \in CallReply("string_array", rt) :
            /\ Error' = MkErr(CallError("string_array", rt))
            /\ LastOp' = method
            /\ Observe(method, "string_array", TRUE, a, rt, "nil")

call_for_string_array(method, a) ==
    IF Error # Nil
    THEN /\ UNCHANGED <<Error, LastOp>>
         /\ Observe(method, "string_array", FALSE, a, "none", "nil")
    ELSE \E rt \in RoundTripsNow :
         \E reply \in CallReply("string_array", rt) :
            /\ Error' = MkErr(CallError("string_array", rt))
            /\ LastOp' = method
            /\ Observe(method, "string_array", TRUE, a, rt, reply)

\* Variant: the check of m2m.Error is missing.
call_for_void_unguarded(method, a) ==
    \E rt \in RoundTripsNow :
    \E reply \in CallReply("void", rt) :
        /\ Error' = MkErr(CallError("void", rt))
        /\ LastOp' = method
        /\ Observe(method, "void", TRUE, a, rt, "none")

call_for_void(method, a) ==
    IF Error # Nil
    THEN /\ UNCHANGED <<Error, LastOp>>
         /\ Observe(method, "void", FALSE, a, "none", "none")
    ELSE \E rt \in RoundTripsNow :
         \E reply \in CallReply("void", rt) :
            /\ Error' = MkErr(CallError("void", rt))
            /\ LastOp' = method
            /\ Observe(method, "void", TRUE, a, rt, "none")

----------------------------------------------------------------------------
\* Wrappers for each individual API (jsonrpc.go:34-105)

\* The strings a caller passes: commands, paths, comments, file contents.
Texts == {"t"}

CliExec(command) == call_for_string("cli_exec", <<"command", command>>)

CliGet(command) == call_for_array_of_arrays("cli_get", <<"command", command>>)

CliSet(command) == call_for_void("cli_set", <<"command", command>>)

WriteFile(filename, data) ==
    call_for_void("write_file", <<"filename", filename, "data", data>>)

Get(path) == call_for_array_of_arrays("get", <<"path", path>>)

GetChildren(path) == call_for_string_array("get_children", <<"path", path>>)

Set(path, value) == call_for_void("set", <<"path", path, "value", value>>)

Delete(path) == call_for_void("delete", <<"path", path>>)

Replace(path) == call_for_void("replace", <<"path", path>>)

Commit(comment, label) ==
    call_for_optional_string("commit",
                             <<"comment", comment, "label", label>>)

CommitReplace(comment, label) ==
    call_for_optional_string("commit_replace",
                             <<"comment", comment, "label", label>>)

DiscardChanges == call_for_void("discard_changes", <<>>)

GetChanges == call_for_array_of_objects("get_changes", <<>>)

GetSchema(path, fields) ==
    IF fields # ""
    THEN call_for_object("get_schema", <<"path", path, "fields", fields>>)
    ELSE call_for_object("get_schema", <<"path", path>>)

GetVersion == call_for_object("get_version", <<>>)

\* Variant: a client that has latched an error skips Close like any other
\* operation.
Close_gated_by_latch ==
    /\ ~closed
    /\ Error = Nil
    /\ closed' = TRUE
    /\ xclosed' = TRUE
    /\ UNCHANGED <<Error, LastOp, ret, nOps, nCalls, lastReq, last, failed,
                   rvars, wvars, creds, keyFile, client, conn, connErr, auth,
                   dialed, ready, bg, crashed, pc, early, ioDone, ioErr,
                   preLeft, leaked>>

\* m2m.Close(): rpc.Client.Close through the embedded client (jsonrpc.go:16),
\* which closes the codec and with it the XrSession the client was built on
\* (XrSession.Close, ssh.go:137-139).  Error is not consulted.
Close ==
    /\ ~closed
    /\ closed' = TRUE
    /\ xclosed' = TRUE
    /\ UNCHANGED <<Error, LastOp, ret, nOps, nCalls, lastReq, last, failed,
                   rvars, wvars, creds, keyFile, client, conn, connErr, auth,
                   dialed, ready, bg, crashed, pc, early, ioDone, ioErr,
                   preLeft, leaked>>

\* Variant: the check of m2m.Error is missing, so a marshal failure is
\* recorded on a client that has already failed.
UpdateTelemetryPolicy_unguarded(policy) ==
    \E marshalled \in BOOLEAN :
        IF ~marshalled
        THEN /\ Error' = MkErr("marshal")
             /\ LastOp' = "UpdateTelemetryPolicy"
             /\ Observe("UpdateTelemetryPolicy", "void", FALSE, <<>>,
                        "none", "none")
        ELSE WriteFile("/telemetry/policies/" \o policy \o ".policy",
                       "json")

\* Variant: a marshal failure is stored in Error, and LastOp is left as it
\* was.
UpdateTelemetryPolicy_keeps_lastop(policy) ==
    IF Error # Nil
    THEN /\ UNCHANGED <<Error, LastOp>>
         /\ Observe("UpdateTelemetryPolicy", "void", FALSE, <<>>, "none",
                    "none")
    ELSE \E marshalled \in BOOLEAN :
            IF ~marshalled
            THEN /\ Error' = MkErr("marshal")
                 /\ UNCHANGED LastOp
                 /\ Observe("UpdateTelemetryPolicy", "void", FALSE, <<>>,
                            "none", "none")
            ELSE WriteFile("/telemetry/policies/" \o policy \o ".policy",
                           "json")

\* UpdateTelemetryPolicy (ssh.go:166-178): json.MarshalIndent either fails
\* or yields the file contents handed to WriteFile.
UpdateTelemetryPolicy(policy) ==
    IF Error # Nil
    THEN /\ UNCHANGED <<Error, LastOp>>
         /\ Observe("UpdateTelemetryPolicy", "void", FALSE, <<>>, "none",
                    "none")
    ELSE \E marshalled \in BOOLEAN :
            IF ~marshalled
            THEN /\ Error' = MkErr("marshal")
                 /\ LastOp' = "UpdateTelemetryPolicy"
                 /\ Observe("UpdateTelemetryPolicy", "void", FALSE, <<>>,
                            "none", "none")
            ELSE WriteFile("/telemetry/policies/" \o policy \o ".policy",
                           "json")

----------------------------------------------------------------------------
\* update_collectors (manage_telemetry/collectors.go:20-37) with the helpers
\* of xrm2m_util it calls.  It issues its operations one after another on a
\* fresh client, so the number of operations returned is its place in the
\* sequence.

path_root == "RootCfg.Telemetry.JSON.PolicyGroup(['main']).IPv4Address"

\* m2m.Replace(path_root)
UpdateCollectorsReplace ==
    /\ nOps = 0
    /\ Replace(path_root)

\* for _, collector := range *collectors { m2m.Set(path_root(key), true) }
UpdateCollectorsSet ==
    /\ nOps \in 1..collectors
    /\ Set(path_root \o "(key)", "true")

\* xrm2m_util.PrintChanges: m2m.GetChanges(), then printing only.
PrintChanges ==
    /\ nOps = collectors + 1
    /\ GetChanges

\* xrm2m_util.CommitAndPrintOutcome: m2m.Commit(label, ""), then the
\* outcome is printed from ret, Error and LastOp (PrintedOutcome).
CommitAndPrintOutcome ==
    /\ nOps = collectors + 2
    /\ Commit("telemetry bot v0.1", "")

\* update_collectors has returned.
UpdateCollectorsDone == nOps = collectors + 3

\* What CommitAndPrintOutcome prints once Commit has returned.
PrintedOutcome ==
    IF Error = Nil
    THEN IF ret = ""
         THEN [text |-> "No commit required", op |-> "", err |-> Nil]
         ELSE [text |-> "New commit", op |-> "", err |-> Nil]
    ELSE [text |-> "Error during", op |-> LastOp, err |-> Error]

\* (ssh.go:19-139)

Min(x, y) == IF x < y THEN x ELSE y

\* buf := make([]byte, 128)
PreambleBufSize == 128

\* The callers of the ReadWriteCloser: one reading, one writing (for the
\* rpc client, its input goroutine and the goroutine inside Call).
Callers == {"reader", "writer"}

\* What the key file at creds.Keypathname turns out to be.
KeyFiles == {"good", "unreadable", "unparsable"}

\* The stages of NewXrSession after get_auth that can fail, and "none".
ConnectFailures == {"none", "dial", "session", "stdin", "stdout", "start"}

ConnectErrorText(stage) ==
    CASE stage = "dial"    -> "Can't connect"
      [] stage = "session" -> "Can't create session"
      [] stage = "stdin"   -> "Can't create stdin pipe"
      [] stage = "stdout"  -> "Can't create stdout pipe"
      [] stage = "start"   -> "Can't start command"
      [] OTHER             -> ""

\* Variant: a key file that cannot be read or parsed is skipped, and the
\* methods gathered so far are offered.
get_auth_skips_bad_key(c, keyfile) ==
    LET withPassword == IF c.Password # "" THEN <<"password">> ELSE <<>> IN
    IF c.Keypathname # "" /\ keyfile = "good"
    THEN [auth |-> Append(withPassword, "publickey"), err |-> ""]
    ELSE [auth |-> withPassword, err |-> ""]

\* Variant: the key is tried before the password.
get_auth_key_first(c, keyfile) ==
    LET withPassword == IF c.Password # "" THEN <<"password">> ELSE <<>> IN
    IF c.Keypathname # ""
    THEN IF keyfile = "unreadable"
         THEN [auth |-> <<>>, err |-> "Can't read private key file"]
         ELSE IF keyfile = "unparsable"
         THEN [auth |-> <<>>, err |-> "Can't parse private key"]
         ELSE [auth |-> <<"publickey">> \o withPassword, err |-> ""]
    ELSE [auth |-> withPassword, err |-> ""]

\* get_auth (ssh.go:93-118): the methods in the order appended, or the error
\* of reading / parsing the key file.
get_auth(c, keyfile) ==
    LET withPassword == IF c.Password # "" THEN <<"password">> ELSE <<>> IN
    IF c.Keypathname # ""
    THEN IF keyfile = "unreadable"
         THEN [auth |-> <<>>, err |-> "Can't read private key file"]
         ELSE IF keyfile = "unparsable"
         THEN [auth |-> <<>>, err |-> "Can't parse private key"]
         ELSE [auth |-> Append(withPassword, "publickey"), err |-> ""]
    ELSE [auth |-> withPassword, err |-> ""]

\* Variant: NewXrSession reads the preamble itself before it returns the
\* handle, which is then ready.
NewXrSession_waits_for_preamble ==
    /\ conn = "init"
    /\ \E failure \in ConnectFailures :
        LET ga == get_auth(creds, keyFile) IN
        IF ga.err # ""
        THEN /\ conn' = "failed"
             /\ connErr' = ga.err
             /\ UNCHANGED <<auth, dialed, ready, bg>>
        ELSE /\ auth' = ga.auth
             /\ dialed' = TRUE
             /\ IF failure # "none"
                THEN /\ conn' = "failed"
                     /\ connErr' = ConnectErrorText(failure)
                     /\ UNCHANGED <<ready, bg>>
                ELSE /\ preLeft > 0
                     /\ conn' = "ok"
                     /\ connErr' = ""
                     /\ ready' = TRUE
                     /\ bg' = "done"
    /\ UNCHANGED <<creds, keyFile, crashed, xclosed, pc, early, ioDone, ioErr,
                   preLeft, leaked, cvars, rvars, wvars>>

\* NewXrSession (ssh.go:36-90).  It runs on the caller's thread with no
\* other thread of the session alive, so it is one step: get_auth, then Dial,
\* NewSession, the two pipes and Start, the first failing stage ending it;
\* on success the handle is built not ready and the goroutine is started.
NewXrSession ==
    /\ conn = "init"
    /\ \E failure \in ConnectFailures :
        LET ga == get_auth(creds, keyFile) IN
        IF ga.err # ""
        THEN /\ conn' = "failed"
             /\ connErr' = ga.err
             /\ UNCHANGED <<auth, dialed, ready, bg>>
        ELSE /\ auth' = ga.auth
             /\ dialed' = TRUE
             /\ IF failure # "none"
                THEN /\ conn' = "failed"
                     /\ connErr' = ConnectErrorText(failure)
                     /\ UNCHANGED <<ready, bg>>
                ELSE /\ conn' = "ok"
                     /\ connErr' = ""
                     /\ ready' = FALSE
                     /\ bg' = "reading"
    /\ UNCHANGED <<creds, keyFile, crashed, xclosed, pc, early, ioDone, ioErr,
                   preLeft, leaked, cvars, rvars, wvars>>

\* NewClient (jsonrpc.go:22-28): NewXrSession with the fixed command; its
\* error is returned with a nil client, otherwise the client is built on the
\* handle.
NewClient ==
    /\ NewXrSession
    /\ client' = IF conn' = "ok" THEN "made" ELSE "nil"

\* The goroutine's stdout.Read(buf) returns (ssh.go:82-85).  It returns some
\* of the bytes the peer has emitted, at most the buffer's size; or an error
\* (the peer hung up, the session was closed), and then the goroutine
\* panics, which nothing recovers: the process dies.  While the peer emits
\* nothing and the session is open the read stays blocked.
PreambleRead ==
    /\ bg = "reading"
    /\ ~crashed
    /\ \/ /\ ~xclosed
          /\ preLeft > 0
          /\ \E n \in 1..Min(preLeft, PreambleBufSize) :
                preLeft' = preLeft - n
          /\ bg' = "read"
          /\ UNCHANGED crashed
       \/ /\ bg' = "panicked"
          /\ crashed' = TRUE
          /\ UNCHANGED preLeft
    /\ UNCHANGED <<creds, keyFile, client, conn, connErr, auth, dialed, ready, xclosed, pc,
                   early, ioDone, ioErr, leaked, cvars, rvars, wvars>>

\* Variant: the goroutine ends without setting the flag.
PreambleReady_forgets_flag ==
    /\ bg = "read"
    /\ ~crashed
    /\ bg' = "done"
    /\ UNCHANGED <<creds, keyFile, client, conn, connErr, auth, dialed, ready, crashed,
                   xclosed, pc, early, ioDone, ioErr, preLeft, leaked, cvars,
                   rvars, wvars>>

\* xrsession.ready = true (ssh.go:86)
PreambleReady ==
    /\ bg = "read"
    /\ ~crashed
    /\ ready' = TRUE
    /\ bg' = "done"
    /\ UNCHANGED <<creds, keyFile, client, conn, connErr, auth, dialed, crashed, xclosed, pc,
                   early, ioDone, ioErr, preLeft, leaked, cvars, rvars, wvars>>

\* xrs.ready is read by the callers and written by the goroutine with no
\* synchronisation: a caller's load yields the value written or the one
\* before it.
ReadySeen == {ready, FALSE}

\* A caller issues Read or Write on the handle NewXrSession returned.
Issue(c) ==
    /\ conn = "ok"
    /\ ~crashed
    /\ pc[c] = "idle"
    /\ ioDone[c] < MaxIO
    /\ pc' = [pc EXCEPT ![c] = "gate"]
    /\ early' = (early \/ ~ready)
    /\ UNCHANGED <<creds, keyFile, client, conn, connErr, auth, dialed, ready, bg, crashed,
                   xclosed, ioDone, ioErr, preLeft, leaked, cvars, rvars, wvars>>

\* Variant: the loop on xrs.ready is missing.
Gate_open(c) ==
    /\ ~crashed
    /\ pc[c] = "gate"
    /\ pc' = [pc EXCEPT ![c] = "io"]
    /\ UNCHANGED <<creds, keyFile, client, conn, connErr, auth, dialed, ready, bg, crashed,
                   xclosed, early, ioDone, ioErr, preLeft, leaked, cvars,
                   rvars, wvars>>

\* for !xrs.ready { time.Sleep(100 * time.Millisecond) } (ssh.go:124-126 and
\* 131-133): one test of the flag; seeing false the caller sleeps and tests
\* again.
Gate(c) ==
    /\ ~crashed
    /\ pc[c] = "gate"
    /\ \E seen \in ReadySeen :
          pc' = [pc EXCEPT ![c] = IF seen THEN "io" ELSE "gate"]
    /\ UNCHANGED <<creds, keyFile, client, conn, connErr, auth, dialed, ready, bg, crashed,
                   xclosed, early, ioDone, ioErr, preLeft, leaked, cvars,
                   rvars, wvars>>

\* return (*xrs.stdout).Read(p) (ssh.go:127): the caller is handed whatever
\* the stream holds next, preamble bytes not yet read included; or an error,
\* the only outcome once the session is closed.
Read ==
    /\ ~crashed
    /\ pc["reader"] = "io"
    /\ \/ /\ ~xclosed
          /\ IF preLeft > 0
             THEN /\ \E n \in 1..preLeft : preLeft' = preLeft - n
                  /\ leaked' = TRUE
             ELSE UNCHANGED <<preLeft, leaked>>
          /\ ioErr' = [ioErr EXCEPT !["reader"] = FALSE]
       \/ /\ ioErr' = [ioErr EXCEPT !["reader"] = TRUE]
          /\ UNCHANGED <<preLeft, leaked>>
    /\ pc' = [pc EXCEPT !["reader"] = "idle"]
    /\ ioDone' = [ioDone EXCEPT !["reader"] = @ + 1]
    /\ UNCHANGED <<creds, keyFile, client, conn, connErr, auth, dialed, ready, bg, crashed,
                   xclosed, early, cvars, rvars, wvars>>

\* return (*xrs.stdin).Write(p) (ssh.go:134)
Write ==
    /\ ~crashed
    /\ pc["writer"] = "io"
    /\ \/ /\ ~xclosed
          /\ ioErr' = [ioErr EXCEPT !["writer"] = FALSE]
       \/ ioErr' = [ioErr EXCEPT !["writer"] = TRUE]
    /\ pc' = [pc EXCEPT !["writer"] = "idle"]
    /\ ioDone' = [ioDone EXCEPT !["writer"] = @ + 1]
    /\ UNCHANGED <<creds, keyFile, client, conn, connErr, auth, dialed, ready, bg, crashed,
                   xclosed, early, preLeft, leaked, cvars, rvars, wvars>>

\* Variant: closing marks the handle not ready again.
XrSessionClose_resets_ready ==
    /\ conn = "ok"
    /\ ~crashed
    /\ ~xclosed
    /\ xclosed' = TRUE
    /\ ready' = FALSE
    /\ UNCHANGED <<creds, keyFile, client, conn, connErr, auth, dialed, bg, crashed,
                   pc, early, ioDone, ioErr, preLeft, leaked, cvars, rvars, wvars>>

\* XrSession.Close (ssh.go:137-139): closes the ssh session.
XrSessionClose ==
    /\ conn = "ok"
    /\ ~crashed
    /\ ~xclosed
    /\ xclosed' = TRUE
    /\ UNCHANGED <<creds, keyFile, client, conn, connErr, auth, dialed, ready, bg, crashed,
                   pc, early, ioDone, ioErr, preLeft, leaked, cvars, rvars, wvars>>

\* The Creds values: each field empty or not.
CredsValues ==
    [User : {"", "user"}, Password : {"", "secret"},
     Keypathname : {"", "id_rsa"}]

\* Before NewXrSession is called.
InitSession ==
    /\ creds \in CredsValues
    /\ keyFile \in KeyFiles
    /\ client = "none"
    /\ conn = "init"
    /\ connErr = ""
    /\ auth = <<>>
    /\ dialed = FALSE
    /\ ready = FALSE
    /\ bg = "none"
    /\ crashed = FALSE
    /\ xclosed = FALSE
    /\ pc = [c \in Callers |-> "idle"]
    /\ early = FALSE
    /\ ioDone = [c \in Callers |-> 0]
    /\ ioErr = [c \in Callers |-> FALSE]
    /\ preLeft \in 0..MaxPreamble
    /\ leaked = FALSE

\* The session an M2MClient exists on: NewXrSession returned a handle, and
\* the preamble has been read.
InitSessionUp ==
    /\ creds = [User |-> "user", Password |-> "secret", Keypathname |-> ""]
    /\ keyFile = "good"
    /\ client = "made"
    /\ conn = "ok"
    /\ connErr = ""
    /\ auth = <<"password">>
    /\ dialed = TRUE
    /\ ready = TRUE
    /\ bg = "done"
    /\ crashed = FALSE
    /\ xclosed = FALSE
    /\ pc = [c \in Callers |-> "idle"]
    /\ early = FALSE
    /\ ioDone = [c \in Callers |-> 0]
    /\ ioErr = [c \in Callers |-> FALSE]
    /\ preLeft = 0
    /\ leaked = FALSE

----------------------------------------------------------------------------
\* The call_for_* helpers step by step (jsonrpc.go:111-182), as run by one
\* or by two threads on the same M2MClient.  The seven helpers take the same
\* steps and differ in the type of reply only; three methods stand for them.

Threads == {"t1", "t2"}

StepMethods == {"delete", "commit", "get_changes"}

ShapeOf(method) ==
    CASE method = "delete" -> "void"
      [] method = "commit" -> "optional_string"
      [] OTHER -> "array_of_objects"

NoCur == [method |-> "", idx |-> 0]

InitThreads ==
    /\ tpc = [t \in Threads |-> "idle"]
    /\ top = [t \in Threads |-> NoCur]
    /\ issued = 0
    /\ wire = <<>>
    /\ pending = {}
    /\ overlap = FALSE

\* Variant: the check of m2m.Error is missing.
call_check_unguarded(t, method) ==
    /\ tpc[t] = "idle"
    /\ issued < MaxIssued
    /\ issued' = issued + 1
    /\ tpc' = [tpc EXCEPT ![t] = "call"]
    /\ top' = [top EXCEPT ![t] = [method |-> method, idx |-> issued + 1]]
    /\ overlap' = (overlap \/ \E u \in Threads \ {t} : tpc[u] # "idle")
    /\ UNCHANGED <<wire, pending, cvars, rvars, svars>>

\* if m2m.Error != nil { return <zero> }: the operation is issued; it returns
\* at once on a client with an error, and goes on to the call otherwise.
call_check(t, method) ==
    /\ tpc[t] = "idle"
    /\ issued < MaxIssued
    /\ issued' = issued + 1
    /\ IF Error # Nil
       THEN UNCHANGED <<tpc, top, overlap>>
       ELSE /\ tpc' = [tpc EXCEPT ![t] = "call"]
            /\ top' = [top EXCEPT ![t] =
                          [method |-> method, idx |-> issued + 1]]
            /\ overlap' = (overlap \/ \E u \in Threads \ {t} : tpc[u] # "idle")
    /\ UNCHANGED <<wire, pending, cvars, rvars, svars>>

\* Variant: the request is started with rpc.Client.Go and its completion is
\* not awaited.
call_send_async(t) ==
    /\ tpc[t] = "call"
    /\ wire' = Append(wire, top[t].idx)
    /\ pending' = pending \cup {top[t].idx}
    /\ tpc' = [tpc EXCEPT ![t] = "setop"]
    /\ UNCHANGED <<top, issued, overlap, cvars, rvars, svars>>

\* m2m.Call(method, make_request(args), &reply), first half: the request is
\* written to the transport, and the thread waits for its answer.
call_send(t) ==
    /\ tpc[t] = "call"
    /\ wire' = Append(wire, top[t].idx)
    /\ pending' = pending \cup {top[t].idx}
    /\ tpc' = [tpc EXCEPT ![t] = "wait"]
    /\ UNCHANGED <<top, issued, overlap, cvars, rvars, svars>>

\* m2m.Error = m2m.Call(...), second half: the round trip ends, and what Call
\* returns is stored in Error.
call_return(t) ==
    /\ tpc[t] = "wait"
    /\ \E rt \in RoundTrips :
        LET kind == CallError(ShapeOf(top[t].method), rt) IN
        /\ Error' = IF kind = "nil" THEN Nil
                    ELSE [kind |-> kind, at |-> top[t].idx]
        /\ failed' = IF failed = NoFail /\ kind # "nil"
                     THEN [at |-> top[t].idx, method |-> top[t].method,
                           err |-> Error', calls |-> Len(wire)]
                     ELSE failed
    /\ pending' = pending \ {top[t].idx}
    /\ tpc' = [tpc EXCEPT ![t] = "setop"]
    /\ UNCHANGED <<top, issued, wire, overlap, LastOp, closed, ret, nOps,
                   nCalls, lastReq, last, rvars, svars>>

\* m2m.LastOp = method; return reply
call_set_lastop(t) ==
    /\ tpc[t] = "setop"
    /\ LastOp' = top[t].method
    /\ tpc' = [tpc EXCEPT ![t] = "idle"]
    /\ top' = [top EXCEPT ![t] = NoCur]
    /\ UNCHANGED <<issued, wire, pending, overlap, Error, closed, ret, nOps,
                   nCalls, lastReq, last, failed, rvars, svars>>

----------------------------------------------------------------------------
\* A single caller issuing operations one after another on one client.

\* NewClient (jsonrpc.go:22-28): &M2MClient{..., nil, ""}
InitClient ==
    /\ Error = Nil
    /\ LastOp = ""
    /\ closed = FALSE
    /\ ret = "none"
    /\ nOps = 0
    /\ nCalls = 0
    /\ lastReq = NoReq
    /\ last = NoOp
    /\ failed = NoFail

InitRequest ==
    /\ args = <<>>
    /\ request = NotBuilt
    /\ collectors = 0

Init == InitClient /\ InitRequest /\ InitSessionUp /\ InitThreads

\* The caller issues any operation next, MaxOps of them at most.
Next ==
    \/ \E c \in Texts : CliExec(c)
    \/ \E c \in Texts : CliGet(c)
    \/ \E c \in Texts : CliSet(c)
    \/ \E f \in Texts, d \in Texts : WriteFile(f, d)
    \/ \E p \in Texts : Get(p)
    \/ \E p \in Texts : GetChildren(p)
    \/ \E p \in Texts, v \in Texts : Set(p, v)
    \/ \E p \in Texts : Delete(p)
    \/ \E p \in Texts : Replace(p)
    \/ \E c \in Texts, l \in Texts \cup {""} : Commit(c, l)
    \/ \E c \in Texts, l \in Texts \cup {""} : CommitReplace(c, l)
    \/ DiscardChanges
    \/ GetChanges
    \/ \E p \in Texts, f \in Texts \cup {""} : GetSchema(p, f)
    \/ GetVersion
    \/ \E n \in Texts : UpdateTelemetryPolicy(n)
    \/ Close

Spec == Init /\ [][Next]_vars

----------------------------------------------------------------------------
\* NewXrSession on any credentials, then the goroutine and two callers.

InitS == InitClient /\ InitRequest /\ InitSession /\ InitThreads

NextSession ==
    \/ NewClient
    \/ PreambleRead
    \/ PreambleReady
    \/ \E c \in Callers : Issue(c)
    \/ \E c \in Callers : Gate(c)
    \/ Read
    \/ Write
    \/ XrSessionClose

SpecSession == InitS /\ [][NextSession]_vars

\* A caller's test of the flag that finds it set.
GatePass(c) == Gate(c) /\ pc'[c] = "io"

\* The same under fair scheduling: the goroutine, once its read has
\* returned, gets to run; and a caller that keeps polling a flag that stays
\* set gets to see it set (every turn of the loop loads the flag afresh, the
\* call of time.Sleep standing between two loads).
SpecSessionFair ==
    /\ InitS
    /\ [][NextSession]_vars
    /\ WF_vars(PreambleReady)
    /\ \A c \in Callers : WF_vars(GatePass(c))

----------------------------------------------------------------------------
\* The helpers step by step: one thread, then two threads with nothing to
\* keep them apart.

NextSequential ==
    \/ \E m \in StepMethods : call_check("t1", m)
    \/ call_send("t1")
    \/ call_return("t1")
    \/ call_set_lastop("t1")

SpecSequential == Init /\ [][NextSequential]_vars

NextConcurrent ==
    \/ \E t \in Threads, m \in StepMethods : call_check(t, m)
    \/ \E t \in Threads : call_send(t)
    \/ \E t \in Threads : call_return(t)
    \/ \E t \in Threads : call_set_lastop(t)

SpecConcurrent == Init /\ [][NextConcurrent]_vars

----------------------------------------------------------------------------
\* update_collectors on a fresh client, for every bounded number of
\* collectors.

InitCollectors ==
    /\ InitClient
    /\ InitSessionUp
    /\ InitThreads
    /\ args = <<>>
    /\ request = NotBuilt
    /\ collectors \in 0..MaxCollectors

update_collectors ==
    \/ UpdateCollectorsReplace
    \/ UpdateCollectorsSet
    \/ PrintChanges
    \/ CommitAndPrintOutcome

SpecCollectors == InitCollectors /\ [][update_collectors]_vars

----------------------------------------------------------------------------
\* make_request on every bounded argument list.

InitR ==
    /\ InitClient
    /\ InitSessionUp
    /\ InitThreads
    /\ args \in ArgLists(2 * MaxPairs)
    /\ request = NotBuilt
    /\ collectors = 0

NextRequest == MakeRequest

SpecRequest == InitR /\ [][NextRequest]_vars

----------------------------------------------------------------------------
\* Properties of the client under Spec

\* C1 (latch-once): once some operation has been the first to set Error,
\* every later operation sends no request and returns the zero value of its
\* result type, and Error and LastOp stay those of the first failing
\* operation.
C1_LatchOnce ==
    failed # NoFail =>
        /\ Error = failed.err
        /\ LastOp = failed.method
        /\ nCalls = failed.calls
        /\ nOps > failed.at => ~last.sent /\ ret = Zero(last.shape)

\* The spec's failure scenario: delete is rejected by the device, then
\* get_changes returns empty without a request.
C1_Witness ==
    /\ failed.method = "delete"
    /\ failed.err.kind = "remote"
    /\ nOps = failed.at + 1
    /\ last.method = "get_changes"
    /\ ret = "nil"
    /\ nCalls = failed.calls

\* C2 (faulted is absorbing): no step of any operation, of
\* UpdateTelemetryPolicy or of Close changes Error once it is non-nil.
C2_FaultedAbsorbing == [][Error # Nil => Error' = Error]_vars

\* A faulted client on which further operations and Close have been tried.
C2_Witness ==
    /\ Error # Nil
    /\ closed
    /\ nOps > failed.at
    /\ last.method = "UpdateTelemetryPolicy"

\* C3 as stated: LastOp is empty while Error is nil, and names the failing
\* method once Error is set.
C3_LastOpEmptyWhileClean ==
    /\ Error = Nil => LastOp = ""
    /\ Error # Nil => LastOp = failed.method

\* C3 as amended: LastOp is empty until the first operation that calls the
\* server, and from then on names the method of the most recent operation
\* that did (or UpdateTelemetryPolicy, when its marshalling failed); hence it
\* names the failing method whenever Error is set, and the last successful
\* method while Error is nil.
C3_LastOpNamesLastCall ==
    /\ Error # Nil => LastOp = failed.method
    /\ Error = Nil => LastOp = (IF nCalls = 0 THEN "" ELSE lastReq.method)

\* A clean client after a successful cli_exec: LastOp is not empty.
C3_Witness ==
    /\ Error = Nil
    /\ last.method = "cli_exec"
    /\ last.sent
    /\ LastOp = "cli_exec"

\* The value a result of JSON kind j is, seen as a value of the shape.
Decoded(shape, j) ==
    CASE j = "null" -> Zero(shape)
      [] shape = "void" -> "none"
      [] shape \in {"string", "optional_string"} -> StringResult
      [] OTHER -> j

\* The class of failure a round trip is, "none" for a result that decodes.
FailureClass(shape, rt) ==
    IF rt \in {"transport", "remote"} THEN rt
    ELSE IF Fits(shape, rt) THEN "none" ELSE "decode"

\* C7 (optional result): a commit or commit_replace that performed its call
\* returns "" with Error nil when the result is absent, the revision id with
\* Error nil when there is one, and "" with Error set when the call failed.
C7_OptionalResult ==
    last.sent /\ last.method \in {"commit", "commit_replace"} =>
        CASE last.rt = "null"   -> ret = "" /\ Error = Nil
          [] last.rt = "string" -> ret = StringResult /\ ret # "" /\ Error = Nil
          [] OTHER              -> ret = "" /\ Error # Nil

\* A commit that changed nothing: empty result, client still clean.
C7_Witness ==
    /\ last.method = "commit"
    /\ last.sent
    /\ last.rt = "null"
    /\ ret = ""
    /\ Error = Nil

\* C8 (successful round trip): an operation whose call succeeds returns the
\* server's decoded result and leaves Error nil; every operation that
\* performs a call leaves LastOp at its method name.
C8_SuccessfulRoundTrip ==
    /\ last.sent /\ FailureClass(last.shape, last.rt) = "none" =>
          /\ ret = Decoded(last.shape, last.rt)
          /\ Error = Nil
    /\ last.sent => LastOp = last.method

\* set, then a commit the server answers with "1001".
C8_Witness ==
    /\ last.prev = "set"
    /\ last.method = "commit"
    /\ last.rt = "string"
    /\ ret = "1001"
    /\ Error = Nil
    /\ LastOp = "commit"

\* C9 (uniform latching): on a clean client a transport failure, an error
\* payload and an undecodable reply each set Error to that failure and
\* LastOp to the method.
C9_EveryFailureLatches ==
    last.sent /\ FailureClass(last.shape, last.rt) # "none" =>
        /\ Error = [kind |-> FailureClass(last.shape, last.rt), at |-> nOps]
        /\ failed.err = Error
        /\ LastOp = last.method

\* A reply that is an array, but not of the rows get expects.
C9_Witness ==
    /\ last.method = "get"
    /\ last.sent
    /\ last.rt = "array_of_strings"
    /\ Error.kind = "decode"
    /\ ret = "partial"
    /\ LastOp = "get"

----------------------------------------------------------------------------
\* Properties of the session under SpecSession

\* C4 (readiness gate): no caller's Read or Write is at, or has been
\* through, the underlying stream unless the goroutine's preamble read has
\* returned and ready has been set.
C4_ReadinessGate ==
    (\E c \in Callers : pc[c] = "io" \/ ioDone[c] > 0) =>
        ready /\ bg = "done"

\* Both callers issued their call before ready was set, and both calls went
\* through to the stream afterwards.
C4_Witness ==
    /\ early
    /\ ioDone["reader"] > 0
    /\ ioDone["writer"] > 0
    /\ ~ioErr["writer"]
    /\ ready

\* C5 as stated: a failed preamble read does not bring the process down
\* (and the callers' later Reads and Writes return an error).
C5_PreambleFailureSurfaced ==
    bg = "panicked" =>
        /\ ~crashed
        /\ \A c \in Callers : pc[c] = "idle" /\ ioDone[c] > 0 => ioErr[c]

\* C6 as stated: credentials with an empty user, or with neither password nor
\* key path, make connect fail before ssh.Dial is attempted.
C6_InvalidCredsFailBeforeDial ==
    (/\ conn # "init"
     /\ \/ creds.User = ""
        \/ creds.Password = "" /\ creds.Keypathname = "")
    => (conn = "failed" /\ ~dialed)

----------------------------------------------------------------------------
\* Properties of make_request under SpecRequest

PairsOf(a) == 1..(Len(a) \div 2)

DistinctNames(a) ==
    \A i, j \in PairsOf(a) : a[2 * i - 1] = a[2 * j - 1] => i = j

\* C10 (request building): for an even-length argument list with pairwise
\* distinct names, make_request yields the mapping whose keys are exactly the
\* names and which maps each name to the value that follows it.
C10_RequestBuilding ==
    request # NotBuilt /\ Len(args) % 2 = 0 /\ DistinctNames(args) =>
        /\ request.state = "built"
        /\ DOMAIN request.map = {args[2 * i - 1] : i \in PairsOf(args)}
        /\ \A i \in PairsOf(args) : request.map[args[2 * i - 1]] = args[2 * i]

\* [("a",1),("b",2)] has become {a:1, b:2}.
C10_Witness ==
    /\ args = <<"a", 1, "b", 2>>
    /\ request.state = "built"
    /\ request.map = ("a" :> 1 @@ "b" :> 2)

\* C11 as stated: an argument list in which a name occurs twice is a
\* construction error, and make_request produces no mapping for it.
C11_DuplicateNamesRejected ==
    request # NotBuilt /\ Len(args) % 2 = 0 /\ ~DistinctNames(args) =>
        request.state # "built"

----------------------------------------------------------------------------
\* More properties of the session under SpecSession

\* C12 (connect failure yields no handle): when NewXrSession has failed it
\* returned an error and no handle, the goroutine was not started, no Read
\* or Write can be issued, and NewClient returned a nil client; and a key
\* file that cannot be read or parsed makes it fail before ssh.Dial, whether
\* or not a password is given.
C12_ConnectFailureNoHandle ==
    /\ conn = "failed" =>
          /\ connErr # ""
          /\ bg = "none"
          /\ ~ready
          /\ client = "nil"
          /\ \A c \in Callers : pc[c] = "idle" /\ ioDone[c] = 0
    /\ conn # "init" /\ creds.Keypathname # "" /\ keyFile # "good" =>
          /\ conn = "failed"
          /\ ~dialed
          /\ connErr \in {"Can't read private key file",
                          "Can't parse private key"}

\* A password and an unparsable key: connect failed without dialling.
C12_Witness ==
    /\ creds.Password # ""
    /\ creds.Keypathname # ""
    /\ keyFile = "unparsable"
    /\ conn = "failed"
    /\ connErr = "Can't parse private key"
    /\ ~dialed
    /\ client = "nil"

\* C14 (gate liveness), under SpecSessionFair: once the goroutine's preamble
\* read has returned successfully, every caller waiting at the gate gets to
\* the underlying stream operation.
C14_GateLiveness ==
    \A c \in Callers :
        (pc[c] = "gate" /\ bg \in {"read", "done"}) ~> (pc[c] = "io")

\* The reader, having waited at the gate of a handle that was not ready, is
\* at the stream; the writer is still polling.
C14_Witness ==
    /\ early
    /\ bg = "done"
    /\ pc["reader"] = "io"
    /\ pc["writer"] = "gate"
    /\ ioDone["reader"] = 0

\* C15 (ready is monotone): ready starts false, only the goroutine's step
\* after its read changes it, and no step takes it from true to false.
C15_ReadyMonotone ==
    /\ ready = FALSE
    /\ [][/\ ready => ready'
          /\ ready' # ready => bg = "read" /\ bg' = "done"]_vars

\* A ready handle that has been read from and then closed.
C15_Witness ==
    /\ ready
    /\ xclosed
    /\ ioDone["reader"] > 0
    /\ ioDone["writer"] > 0

----------------------------------------------------------------------------
\* More properties of the client under Spec

\* C16 (ownership and close): closing the client closes the XrSession it was
\* built on, and Close can be taken whether Error is nil or not.
C16_CloseClosesSession ==
    /\ closed => xclosed
    /\ ~closed => ENABLED Close

\* A client that had already latched the device's rejection, then closed.
C16_Witness ==
    /\ Error.kind = "remote"
    /\ closed
    /\ xclosed

\* C20 (no automatic retry): every operation that finds the client clean
\* invokes m2m.Call once, whatever comes of it, so the calls made number the
\* operations issued while none has failed, and stay at the number made up
\* to the first failure afterwards: K when operation K failed in its call
\* (K - 1 when it was UpdateTelemetryPolicy failing to marshal, before any
\* call).
C20_NoRetry ==
    /\ failed = NoFail => nCalls = nOps
    /\ failed # NoFail =>
          /\ nCalls = failed.calls
          /\ failed.calls = IF failed.err.kind = "marshal"
                            THEN failed.at - 1 ELSE failed.at

\* The third of three operations failed in transport: three calls were made.
C20_Witness ==
    /\ failed.at = 3
    /\ failed.err.kind = "transport"
    /\ ~closed
    /\ nOps = 3
    /\ nCalls = 3

----------------------------------------------------------------------------
\* Properties of the session that the code does not have (SpecSession)

\* C18 as stated: the goroutine's one read takes the whole preamble, so no
\* caller's Read is ever handed a preamble byte.
C18_NoPreambleLeak == ~leaked

\* C19 as stated: Close never brings the process down, not even while the
\* goroutine's preamble read is pending.
C19_CloseNeverFatal == xclosed => ~crashed


----------------------------------------------------------------------------
\* Properties of the helpers step by step.

Increasing(s) == \A i, j \in 1..Len(s) : i < j => s[i] < s[j]

\* C13: with a single caller issuing operations one after another on one
\* client, at most one request is outstanding at any moment: the only
\* request that can be unanswered is the one of the operation the caller is
\* waiting in, so no request is written before the previous operation has
\* returned; and the requests reach the transport in the order in which the
\* operations were issued.
C13_OneCallAtATime ==
    /\ Cardinality(pending) <= 1
    /\ pending = IF tpc["t1"] = "wait" THEN {top["t1"].idx} ELSE {}
    /\ Increasing(wire)
    /\ \A i \in 1..Len(wire) : wire[i] <= issued

C13_Witness ==
    /\ Len(wire) = 3
    /\ tpc["t1"] = "wait"
    /\ pending = {wire[3]}

\* C17: the latch is lost only to concurrency, and is lost to it.  Whenever
\* the first failure of the client is no longer what Error holds, or, with
\* every caller back from its operation, LastOp names another method than
\* the first one that failed, some helper tested Error while another thread
\* was inside a helper: both had passed the check before either stored its
\* outcome.
C17_LatchLostOnlyToOverlap ==
    /\ (failed # NoFail /\ Error # failed.err) => overlap
    /\ (failed # NoFail /\ (\A t \in Threads : tpc[t] = "idle")
            /\ LastOp # failed.method) => overlap

\* Two operations issued, both past the check; one failed, the other
\* succeeded later: Error is nil again and LastOp names the one that
\* succeeded.
C17_Witness ==
    /\ issued = 2
    /\ Len(wire) = 2
    /\ \A t \in Threads : tpc[t] = "idle"
    /\ failed # NoFail
    /\ Error = Nil
    /\ LastOp # failed.method

----------------------------------------------------------------------------
\* Properties of update_collectors under SpecCollectors.

\* C21: in update_collectors, once a step before the commit has failed
\* (Replace, a Set, or GetChanges), no request is handed to the transport any
\* more, so no commit request is ever sent; and when update_collectors has
\* returned after any failure, what CommitAndPrintOutcome printed is the
\* error and the method name of the first step that failed.
C21_FlatTransaction ==
    /\ (failed # NoFail /\ failed.method # "commit") =>
            /\ lastReq.method # "commit"
            /\ nCalls = failed.calls
    /\ (UpdateCollectorsDone /\ failed # NoFail) =>
            /\ PrintedOutcome.text = "Error during"
            /\ PrintedOutcome.op = failed.method
            /\ PrintedOutcome.err = failed.err

\* A Set fails, and update_collectors runs to its end: the commit was
\* called and skipped.
C21_Witness ==
    /\ UpdateCollectorsDone
    /\ collectors >= 1
    /\ failed.method = "set"
    /\ last.method = "commit"
    /\ ~last.sent
    /\ PrintedOutcome.op = "set"

----------------------------------------------------------------------------
\* Properties of UpdateTelemetryPolicy under Spec.

\* C22: every call of UpdateTelemetryPolicy takes part in the latch.  On a
\* client with an error it leaves Error and LastOp as they were and hands
\* nothing to the transport.  On a clean client either the policy does not
\* marshal, and then Error is the marshal error, LastOp is
\* "UpdateTelemetryPolicy" and nothing is handed to the transport; or
\* exactly one call is made, and it is write_file.
C22_PolicyUpdateLatched ==
    [][(\E n \in Texts : UpdateTelemetryPolicy(n)) =>
        /\ Error # Nil =>
            /\ Error' = Error
            /\ LastOp' = LastOp
            /\ nCalls' = nCalls
            /\ lastReq' = lastReq
        /\ Error = Nil =>
            \/ /\ Error'.kind = "marshal"
               /\ LastOp' = "UpdateTelemetryPolicy"
               /\ nCalls' = nCalls
               /\ lastReq' = lastReq
            \/ /\ Error'.kind # "marshal"
               /\ nCalls' = nCalls + 1
               /\ lastReq'.method = "write_file"
               /\ LastOp' = "write_file"]_vars

\* A policy that does not marshal, then UpdateTelemetryPolicy once more on
\* the client the first call left with an error.
C22_Witness ==
    /\ nOps = 2
    /\ last.method = "UpdateTelemetryPolicy"
    /\ last.prev = "UpdateTelemetryPolicy"
    /\ failed.at = 1
    /\ Error.kind = "marshal"
    /\ LastOp = "UpdateTelemetryPolicy"
    /\ nCalls = 0

----------------------------------------------------------------------------
\* Properties of get_auth under SpecSession.

Offers(list, method) == \E i \in 1..Len(list) : list[i] = method

\* C23: the list get_auth returns holds a password method exactly when
\* Password is not empty and a public-key method exactly when Keypathname is
\* not empty (the key file then being one that reads and parses); it holds
\* nothing else, and with both present it is password first, public key
\* second.  With a key file that does not read or parse get_auth returns
\* its error and no list.
C23_AuthMethodList ==
    /\ (conn # "init" /\ (creds.Keypathname = "" \/ keyFile = "good")) =>
          /\ Offers(auth, "password") <=> creds.Password # ""
          /\ Offers(auth, "publickey") <=> creds.Keypathname # ""
          /\ Len(auth) = (IF creds.Password # "" THEN 1 ELSE 0)
                         + (IF creds.Keypathname # "" THEN 1 ELSE 0)
          /\ (creds.Password # "" /\ creds.Keypathname # "") =>
                auth = <<"password", "publickey">>
    /\ (conn # "init" /\ creds.Keypathname # "" /\ keyFile # "good") =>
          auth = <<>>

C23_Witness ==
    /\ conn # "init"
    /\ creds.Password # ""
    /\ creds.Keypathname # ""
    /\ keyFile = "good"
    /\ auth = <<"password", "publickey">>

----------------------------------------------------------------------------
\* Properties of connect under SpecSession.

\* C24: connect does not wait for readiness.  With credentials get_auth
\* accepts, NewXrSession can return the handle whatever the peer is going to
\* emit, and the handle it returns is not ready, the preamble read being
\* left to the goroutine.  While that read has not returned, ready is false
\* and no Read or Write gets past the gate or has got past it; and when the
\* peer emits nothing the read does not return any bytes, there being no
\* timeout to end it, so the callers stay where they are.
C24_ConnectDoesNotWait ==
    /\ (conn = "init" /\ get_auth(creds, keyFile).err = "") =>
          ENABLED (/\ NewClient
                   /\ conn' = "ok"
                   /\ client' = "made"
                   /\ ~ready'
                   /\ bg' = "reading")
    /\ (conn = "ok" /\ bg = "reading") =>
          /\ ~ready
          /\ \A c \in Callers :
                /\ pc[c] # "io"
                /\ ioDone[c] = 0
                /\ ~ENABLED GatePass(c)
    /\ (bg = "reading" /\ preLeft = 0) =>
          ~ENABLED (PreambleRead /\ bg' = "read")

\* The peer emits nothing: connect has returned the client, the goroutine is
\* in its read, and both callers are polling at the gate.
C24_Witness ==
    /\ conn = "ok"
    /\ client = "made"
    /\ preLeft = 0
    /\ bg = "reading"
    /\ ~ready
    /\ \A c \in Callers : pc[c] = "gate"
============================================================================
